---- MODULE Spec2Model ----
(***************************************************************************)
(* A model of tfjs-core/src/util.ts: flatten, toTypedArray (with its fast  *)
(* path noConversionNeeded), createScalarValue and encodeString.           *)
(*                                                                         *)
(* JavaScript values are records tagged by t.  A number is held in quarter *)
(* units (q stands for q/4), so that halves and quarters, which are exact  *)
(* in float32 and in a double, exercise Math.round and the truncation of   *)
(* Int32Array.  1e40 (finite, beyond float32 and int32), NaN and Infinity  *)
(* are values of their own.  A typed array is a reference into a heap of   *)
(* buffers, so that "the same buffer" and "a new buffer" are different.    *)
(***************************************************************************)
EXTENDS Integers, Sequences, FiniteSets, TLC

VARIABLES heap0, heap, pc, call, ret, log

vars == <<heap0, heap, pc, call, ret, log>>

(* ------------------------------ bounds -------------------------------- *)

\* nodes (leaves and containers) of a nested input
MaxNodes == 4
\* elements of a typed array owned by the caller
MaxBufLen == 2
\* elements of a flat array of scalars
MaxLen == 2
\* own keys of an array-like object drawn from KeySample
MaxKeys == 3

(* ------------------------------ values -------------------------------- *)

Num(q) == [t |-> "number", q |-> q]
Whole(i) == Num(4 * i)
NaN == [t |-> "NaN"]
Huge == [t |-> "1e40"]
Infinity == [t |-> "Infinity"]
Bool(b) == [t |-> "boolean", b |-> b]
Str(cps) == [t |-> "string", cps |-> cps]
Promise == [t |-> "promise"]
Null == [t |-> "null"]
Undefined == [t |-> "undefined"]
Arr(items) == [t |-> "array", items |-> items]
Typed(ref) == [t |-> "typed", ref |-> ref]
Obj(props) == [t |-> "object", props |-> props]

\* the empty function: an object with no own keys
NoProps == [k \in {} |-> Undefined]

Kinds == {"Float32Array", "Int32Array", "Uint8Array", "Uint8ClampedArray"}

Buffer(kind, data) == [kind |-> kind, data |-> data]

(* --------------------------- flatten ---------------------------------- *)

isPromise(x) == x.t = "promise"

isTypedArray(x) == x.t = "typed"

IsArray(x) == x.t = "array"

Digit == {"0", "1", "2", "3", "4", "5", "6", "7", "8", "9"}

DigitVal(c) ==
    CASE c = "0" -> 0 [] c = "1" -> 1 [] c = "2" -> 2 [] c = "3" -> 3
      [] c = "4" -> 4 [] c = "5" -> 5 [] c = "6" -> 6 [] c = "7" -> 7
      [] c = "8" -> 8 [] c = "9" -> 9

DigitChar(d) ==
    CASE d = 0 -> "0" [] d = 1 -> "1" [] d = 2 -> "2" [] d = 3 -> "3"
      [] d = 4 -> "4" [] d = 5 -> "5" [] d = 6 -> "6" [] d = 7 -> "7"
      [] d = 8 -> "8" [] d = 9 -> "9"

\* /^([1-9]+[0-9]*|0)$/.test(key); a key is its sequence of characters
KeyPattern(key) ==
    \/ key = <<"0">>
    \/ /\ Len(key) >= 1
       /\ key[1] \in Digit \ {"0"}
       /\ \A i \in 2..Len(key) : key[i] \in Digit

\* Number(key) of a key made of digits
RECURSIVE KeyNumber(_)
KeyNumber(key) ==
    IF key = <<>> THEN 0
    ELSE 10 * KeyNumber(SubSeq(key, 1, Len(key) - 1)) + DigitVal(key[Len(key)])

\* String(i): the property key an index is looked up under
RECURSIVE IndexKey(_)
IndexKey(i) ==
    IF i < 10 THEN <<DigitChar(i)>>
    ELSE Append(IndexKey(i \div 10), DigitChar(i % 10))

\* arr[i] of an object: the own property, or undefined
GetIndex(obj, i) ==
    IF IndexKey(i) \in DOMAIN obj.props THEN obj.props[IndexKey(i)] ELSE Undefined

Max(a, b) == IF a >= b THEN a ELSE b

\* the loop of lines 174-180 over Object.keys(arr)
RECURSIVE MaxIndexOver(_, _)
MaxIndexOver(keys, maxIndex) ==
    IF keys = {} THEN maxIndex
    ELSE LET key == CHOOSE k \in keys : TRUE
         IN  MaxIndexOver(keys \ {key},
                          IF KeyPattern(key) THEN Max(maxIndex, KeyNumber(key))
                          ELSE maxIndex)

\* arr[i] of a typed array or a true array, i counted from 1
Elements(h, arr) == IF isTypedArray(arr) THEN h[arr.ref].data ELSE arr.items

RECURSIVE flatten(_, _, _, _), flattenElements(_, _, _, _, _), flattenIndices(_, _, _, _, _, _)

\* variant: only the indices that are present are visited
flattenSkipsGaps(h, arr, result, skipTypedArray) ==
    IF \/ arr.t \in {"boolean", "number", "NaN", "1e40", "Infinity", "string"}
       \/ isPromise(arr)
       \/ arr.t \in {"null", "undefined"}
       \/ (isTypedArray(arr) /\ skipTypedArray)
    THEN Append(result, arr)
    ELSE IF IsArray(arr) \/ isTypedArray(arr)
    THEN flattenElements(h, Elements(h, arr), 1, result, skipTypedArray)
    ELSE LET present == {k \in DOMAIN arr.props : KeyPattern(k)}
             RECURSIVE Visit(_, _)
             Visit(i, acc) ==
                 IF i > MaxIndexOver(DOMAIN arr.props, -1) THEN acc
                 ELSE Visit(i + 1, IF IndexKey(i) \in present
                                   THEN flatten(h, GetIndex(arr, i), acc, skipTypedArray)
                                   ELSE acc)
         IN  Visit(0, result)

\* variant: skipTypedArray is ignored
flattenAlwaysExpands(h, arr, result, skipTypedArray) ==
    IF \/ arr.t \in {"boolean", "number", "NaN", "1e40", "Infinity", "string"}
       \/ isPromise(arr)
       \/ arr.t \in {"null", "undefined"}
    THEN Append(result, arr)
    ELSE IF IsArray(arr) \/ isTypedArray(arr)
    THEN flattenElements(h, Elements(h, arr), 1, result, skipTypedArray)
    ELSE flattenIndices(h, arr, 0, MaxIndexOver(DOMAIN arr.props, -1),
                        result, skipTypedArray)

\* variant: the elements of an array are visited from the last to the first
flattenReversed(h, arr, result, skipTypedArray) ==
    IF \/ arr.t \in {"boolean", "number", "NaN", "1e40", "Infinity", "string"}
       \/ isPromise(arr)
       \/ arr.t \in {"null", "undefined"}
       \/ (isTypedArray(arr) /\ skipTypedArray)
    THEN Append(result, arr)
    ELSE IF IsArray(arr) \/ isTypedArray(arr)
    THEN LET RECURSIVE Back(_, _)
             Back(i, acc) ==
                 IF i < 1 THEN acc
                 ELSE Back(i - 1, flatten(h, Elements(h, arr)[i], acc, skipTypedArray))
         IN  Back(Len(Elements(h, arr)), result)
    ELSE flattenIndices(h, arr, 0, MaxIndexOver(DOMAIN arr.props, -1),
                        result, skipTypedArray)

flatten(h, arr, result, skipTypedArray) ==
    IF \/ arr.t \in {"boolean", "number", "NaN", "1e40", "Infinity", "string"}
       \/ isPromise(arr)
       \/ arr.t \in {"null", "undefined"}
       \/ (isTypedArray(arr) /\ skipTypedArray)
    THEN Append(result, arr)
    ELSE IF IsArray(arr) \/ isTypedArray(arr)
    THEN flattenElements(h, Elements(h, arr), 1, result, skipTypedArray)
    ELSE flattenIndices(h, arr, 0, MaxIndexOver(DOMAIN arr.props, -1),
                        result, skipTypedArray)

\* for (let i = 0; i < arr.length; ++i) flatten(arr[i], result, skipTypedArray)
flattenElements(h, items, i, result, skipTypedArray) ==
    IF i > Len(items) THEN result
    ELSE flattenElements(h, items, i + 1,
                         flatten(h, items[i], result, skipTypedArray),
                         skipTypedArray)

\* for (let i = 0; i <= maxIndex; i++) flatten(arr[i], result, skipTypedArray)
flattenIndices(h, obj, i, maxIndex, result, skipTypedArray) ==
    IF i > maxIndex THEN result
    ELSE flattenIndices(h, obj, i + 1, maxIndex,
                        flatten(h, GetIndex(obj, i), result, skipTypedArray),
                        skipTypedArray)

(* ----------------------- numeric conversions -------------------------- *)

\* Number(s) of a string given by its code points: "" is 0, decimal digits
\* are their value, any other text is NaN
RECURSIVE DecimalValue(_)
DecimalValue(cps) ==
    IF cps = <<>> THEN 0
    ELSE 10 * DecimalValue(SubSeq(cps, 1, Len(cps) - 1)) + (cps[Len(cps)] - 48)

\* ToNumber, applied by the typed array constructors and by Math.round
ToNumber(x) ==
    CASE x.t = "boolean" -> IF x.b THEN Whole(1) ELSE Whole(0)
      [] x.t = "null" -> Whole(0)
      [] x.t = "string" ->
           IF \A i \in 1..Len(x.cps) : x.cps[i] \in 48..57
           THEN Whole(DecimalValue(x.cps)) ELSE NaN
      [] x.t \in {"undefined", "promise"} -> NaN
      [] OTHER -> x

\* Math.round(x): floor(x + 0.5); NaN, 1e40 and Infinity are kept
MathRound(x) ==
    LET n == ToNumber(x)
    IN  IF n.t = "number" THEN Num(((n.q + 2) \div 4) * 4) ELSE n

\* the element a Float32Array stores: quarters of small magnitude are exact,
\* 1e40 exceeds the largest float32 and becomes Infinity
ToFloat32(x) ==
    LET n == ToNumber(x)
    IN  IF n.t = "1e40" THEN Infinity ELSE n

\* the element an Int32Array stores (ToInt32): NaN and Infinity give 0, a
\* number is truncated toward zero and reduced modulo 2^32; the numbers of
\* the model are below 2^31, and 1e40 is a multiple of 2^32
ToInt32(x) ==
    LET n == ToNumber(x)
    IN  IF n.t = "number"
        THEN (IF n.q >= 0 THEN Num((n.q \div 4) * 4) ELSE Num(-(((-n.q) \div 4) * 4)))
        ELSE Whole(0)

(* ------------------------- the debug validator ------------------------ *)

\* whether one value is faithfully representable in the target type
Representable(x, dtype) ==
    LET n == ToNumber(x)
    IN  CASE dtype = "int32" -> n.t = "number" /\ n.q % 4 = 0
          [] dtype \in {"float32", "complex64", "null"} -> n.t # "1e40"
          [] OTHER -> TRUE

\* base.checkConversionForErrors(vals, dtype): TRUE when it returns, FALSE
\* when it throws
checkConversionForErrors(vals, dtype) ==
    \A i \in 1..Len(vals) : Representable(vals[i], dtype)

(* --------------------------- the platform ----------------------------- *)

\* the bytes of one code point in UTF-8 (up to three bytes)
Utf8Bytes(cp) ==
    IF cp < 128 THEN <<cp>>
    ELSE IF cp < 2048 THEN <<192 + (cp \div 64), 128 + (cp % 64)>>
    ELSE <<224 + (cp \div 4096), 128 + ((cp \div 64) % 64), 128 + (cp % 64)>>

\* the bytes of one code point in UTF-16LE (basic plane)
Utf16leBytes(cp) == <<cp % 256, cp \div 256>>

\* env().platform.encode(s, encoding): the bytes of the text, as numbers
RECURSIVE EncodeCodePoints(_, _)
EncodeCodePoints(cps, encoding) ==
    IF cps = <<>> THEN <<>>
    ELSE (IF encoding = "utf-16le" THEN Utf16leBytes(Head(cps)) ELSE Utf8Bytes(Head(cps)))
         \o EncodeCodePoints(Tail(cps), encoding)

platformEncode(s, encoding) ==
    LET bytes == EncodeCodePoints(s.cps, encoding)
    IN  [i \in 1..Len(bytes) |-> Whole(bytes[i])]

(* ----------------------------- outcomes ------------------------------- *)

\* the heap after new <kind>(data), and the reference it returns
NewRef(h) == Cardinality(DOMAIN h) + 1

Alloc(h, kind, data) == h @@ (NewRef(h) :> Buffer(kind, data))

Returned(h, ref, steps) == [ok |-> TRUE, ref |-> ref, err |-> "", heap |-> h, steps |-> steps]

Thrown(h, err, steps) == [ok |-> FALSE, ref |-> 0, err |-> err, heap |-> h, steps |-> steps]

(* --------------------------- toTypedArray ----------------------------- *)

\* variant: no input is taken as already converted
noConversionNeededNever(h, a, dtype) == FALSE

\* a instanceof Float32Array && dtype === 'float32' || ...
noConversionNeeded(h, a, dtype) ==
    /\ isTypedArray(a)
    /\ \/ h[a.ref].kind = "Float32Array" /\ dtype = "float32"
       \/ h[a.ref].kind = "Int32Array" /\ dtype = "int32"
       \/ h[a.ref].kind = "Uint8Array" /\ dtype = "bool"

\* variant: the element is tested without Math.round
BoolByteNoRound(x) == IF ToNumber(x) # Whole(0) THEN Whole(1) ELSE Whole(0)

\* variant: the rounded element is stored instead of 1
BoolByteKeepsRounded(x) ==
    IF MathRound(x).t = "number" THEN MathRound(x) ELSE Whole(1)

\* bool[i] = 1 where Math.round(a[i]) !== 0, and 0 elsewhere
BoolByte(x) == IF MathRound(x) # Whole(0) THEN Whole(1) ELSE Whole(0)

\* variant: the dtype == null test is missing
ConvertNullUnknown(h, vals, dtype, steps) ==
    IF dtype \in {"float32", "complex64"}
    THEN Returned(Alloc(h, "Float32Array", [i \in 1..Len(vals) |-> ToFloat32(vals[i])]),
                  NewRef(h), Append(steps, "new Float32Array"))
    ELSE IF dtype = "int32"
    THEN Returned(Alloc(h, "Int32Array", [i \in 1..Len(vals) |-> ToInt32(vals[i])]),
                  NewRef(h), Append(steps, "new Int32Array"))
    ELSE IF dtype = "bool"
    THEN Returned(Alloc(h, "Uint8Array", [i \in 1..Len(vals) |-> BoolByte(vals[i])]),
                  NewRef(h), Append(steps, "new Uint8Array"))
    ELSE Thrown(h, "Unknown data type", steps)

\* lines 56-70: the new buffer of the target type, or the throw of an
\* unknown type; a dtype of "null" stands for null and undefined, "int64"
\* for a type outside the enumeration
Convert(h, vals, dtype, steps) ==
    IF dtype \in {"null", "float32", "complex64"}
    THEN Returned(Alloc(h, "Float32Array", [i \in 1..Len(vals) |-> ToFloat32(vals[i])]),
                  NewRef(h), Append(steps, "new Float32Array"))
    ELSE IF dtype = "int32"
    THEN Returned(Alloc(h, "Int32Array", [i \in 1..Len(vals) |-> ToInt32(vals[i])]),
                  NewRef(h), Append(steps, "new Int32Array"))
    ELSE IF dtype = "bool"
    THEN Returned(Alloc(h, "Uint8Array", [i \in 1..Len(vals) |-> BoolByte(vals[i])]),
                  NewRef(h), Append(steps, "new Uint8Array"))
    ELSE Thrown(h, "Unknown data type", steps)

\* variant: the validator runs after the conversion
toTypedArrayChecksLate(h, debug, a0, dtype) ==
    IF dtype = "string"
    THEN Thrown(h, "Cannot convert a string[] to a TypedArray", <<>>)
    ELSE LET a == IF IsArray(a0) THEN Arr(flatten(h, a0, <<>>, FALSE)) ELSE a0
             vals == Elements(h, a)
             s1 == IF IsArray(a0) THEN <<"flatten">> ELSE <<>>
             r == IF noConversionNeeded(h, a, dtype) THEN Returned(h, a.ref, s1)
                  ELSE Convert(h, vals, dtype, s1)
         IN  IF debug /\ r.ok /\ ~checkConversionForErrors(vals, dtype)
             THEN Thrown(r.heap, "checkConversionForErrors",
                         Append(r.steps, "checkConversionForErrors"))
             ELSE IF debug /\ r.ok
             THEN [r EXCEPT !.steps = Append(r.steps, "checkConversionForErrors")]
             ELSE r

\* variant: the array is converted as it is, without flatten
toTypedArrayNoFlatten(h, debug, a0, dtype) ==
    IF dtype = "string"
    THEN Thrown(h, "Cannot convert a string[] to a TypedArray", <<>>)
    ELSE LET vals == Elements(h, a0)
             s2 == IF debug THEN <<"checkConversionForErrors">> ELSE <<>>
         IN  IF debug /\ ~checkConversionForErrors(vals, dtype)
             THEN Thrown(h, "checkConversionForErrors", s2)
             ELSE IF noConversionNeeded(h, a0, dtype)
             THEN Returned(h, a0.ref, s2)
             ELSE Convert(h, vals, dtype, s2)

toTypedArray(h, debug, a0, dtype) ==
    IF dtype = "string"
    THEN Thrown(h, "Cannot convert a string[] to a TypedArray", <<>>)
    ELSE LET a == IF IsArray(a0) THEN Arr(flatten(h, a0, <<>>, FALSE)) ELSE a0
             vals == Elements(h, a)
             s1 == IF IsArray(a0) THEN <<"flatten">> ELSE <<>>
             s2 == IF debug THEN Append(s1, "checkConversionForErrors") ELSE s1
         IN  IF debug /\ ~checkConversionForErrors(vals, dtype)
             THEN Thrown(h, "checkConversionForErrors", s2)
             ELSE IF noConversionNeeded(h, a, dtype)
             THEN Returned(h, a.ref, s2)
             ELSE Convert(h, vals, dtype, s2)

\* encoding "undefined" stands for the omitted argument
encodeString(h, s, encoding) ==
    LET enc == IF encoding \in {"undefined", ""} THEN "utf-8" ELSE encoding
    IN  Returned(Alloc(h, "Uint8Array", platformEncode(s, enc)), NewRef(h),
                 <<"platform.encode", enc>>)

\* variant: the string branch is missing
createScalarValueNoText(h, debug, value, dtype) ==
    toTypedArray(h, debug, Arr(<<value>>), dtype)

createScalarValue(h, debug, value, dtype) ==
    IF dtype = "string" THEN encodeString(h, value, "undefined")
    ELSE toTypedArray(h, debug, Arr(<<value>>), dtype)

(* ------------------------------ inputs -------------------------------- *)

\* the typed arrays a caller may own
BufferValues(kind) ==
    CASE kind = "Float32Array" -> {Num(2), NaN}
      [] kind = "Int32Array" -> {Whole(-1), Whole(0)}
      [] kind = "Uint8Array" -> {Whole(1), Whole(2)}
      [] kind = "Uint8ClampedArray" -> {Whole(0), Whole(255)}

SeqsUpTo(S, n) == UNION {[1..m -> S] : m \in 0..n}

BufferSample ==
    UNION {{Buffer(kind, data) : data \in SeqsUpTo(BufferValues(kind), MaxBufLen)} :
           kind \in Kinds}

\* scalars: the cases of Math.round and of truncation, and every kind of leaf
ScalarSample ==
    {Num(q) : q \in {0, 1, -1, 2, -2, 3, -3, 4, -4, 6, -6, -11}}
      \cup {NaN, Huge, Bool(TRUE), Bool(FALSE), Str(<<97>>), Str(<<55>>),
            Promise, Null, Undefined}

TextSample == {Str(<<>>), Str(<<97>>), Str(<<233, 55>>), Str(<<8364>>)}

LeafArrays == {Arr(items) : items \in SeqsUpTo(ScalarSample, MaxLen)}

\* the objects whose own keys are the keys keySeq[i], i in I, holding the
\* members of the sequence f in that order
ObjectsOver(f, keySeq) ==
    {Obj([k \in {keySeq[i] : i \in I} |->
            f[Cardinality({j \in I : j <= (CHOOSE i \in I : keySeq[i] = k)})]]) :
       I \in {J \in SUBSET (1..Len(keySeq)) : Cardinality(J) = Len(f)}}

KeySample == << <<"0">>, <<"2">>, <<"1", "0">>, <<"0", "1">>, <<"x">>, <<"-", "1">> >>

KeyObjects ==
    UNION {ObjectsOver(f, KeySample) : f \in SeqsUpTo({Str(<<97>>), Str(<<99>>)}, MaxKeys)}

TreeLeaves == {Whole(1), Str(<<97>>), Typed(1)}

TreeKeys == << <<"1">> >>

\* the nested values of exactly n nodes, and the sequences of nested values
\* of n nodes in all
RECURSIVE TreesOfSize(_), Forests(_)
TreesOfSize(n) ==
    IF n = 1 THEN TreeLeaves \cup {Arr(<<>>), Obj(NoProps)}
    ELSE {Arr(f) : f \in Forests(n - 1)}
           \cup UNION {ObjectsOver(f, TreeKeys) :
                         f \in {g \in Forests(n - 1) : Len(g) <= Len(TreeKeys)}}

Forests(n) ==
    IF n = 0 THEN {<<>>}
    ELSE UNION {{<<t>> \o f : t \in TreesOfSize(k), f \in Forests(n - k)} : k \in 1..n}

TreesUpTo(m) == UNION {TreesOfSize(n) : n \in 1..m}

Trees == TreesUpTo(MaxNodes)

RECURSIVE HasTyped(_)
HasTyped(x) ==
    CASE x.t = "typed" -> TRUE
      [] x.t = "array" -> \E i \in 1..Len(x.items) : HasTyped(x.items[i])
      [] x.t = "object" -> \E k \in DOMAIN x.props : HasTyped(x.props[k])
      [] OTHER -> FALSE

\* a caller's heap and a value built over it: the heap holds buffer 1 when
\* the value refers to it
WithHeap(values) ==
    {<<(1 :> b), x>> : b \in BufferSample, x \in {y \in values : HasTyped(y)}}
      \cup {<< <<>>, x>> : x \in {y \in values : ~HasTyped(y)}}

FlattenInputs == WithHeap(Trees \cup LeafArrays \cup KeyObjects)

\* toTypedArray is handed a true array or a typed array
TensorInputs ==
    WithHeap({x \in TreesUpTo(MaxNodes - 1) : x.t \in {"array", "typed"}} \cup LeafArrays
               \cup {Arr(<<o>>) : o \in KeyObjects})

DTypes == {"float32", "int32", "bool", "complex64", "string", "null", "int64"}

Encodings == {"undefined", "", "utf-8", "utf-16le"}

(* ------------------------------ actions ------------------------------- *)

NoCall == [op |-> "", arg |-> Null, dtype |-> "", debug |-> FALSE,
           skipTypedArray |-> FALSE, encoding |-> ""]

NoRet == [ok |-> TRUE, ref |-> 0, err |-> "", value |-> <<>>]

Init ==
    /\ heap0 = <<>>
    /\ heap = <<>>
    /\ pc = "idle"
    /\ call = NoCall
    /\ ret = NoRet
    /\ log = <<>>

Finish(h0, c, r) ==
    /\ heap0' = h0
    /\ heap' = r.heap
    /\ pc' = "done"
    /\ call' = c
    /\ ret' = [ok |-> r.ok, ref |-> r.ref, err |-> r.err, value |-> <<>>]
    /\ log' = r.steps

Flatten ==
    /\ pc = "idle"
    /\ \E in \in FlattenInputs, skip \in BOOLEAN :
         /\ heap0' = in[1]
         /\ heap' = in[1]
         /\ pc' = "done"
         /\ call' = [NoCall EXCEPT !.op = "flatten", !.arg = in[2],
                                   !.skipTypedArray = skip]
         /\ ret' = [NoRet EXCEPT !.value = flatten(in[1], in[2], <<>>, skip)]
         /\ log' = <<>>

ToTypedArray ==
    /\ pc = "idle"
    /\ \E in \in TensorInputs, dtype \in DTypes, debug \in BOOLEAN :
         Finish(in[1],
                [NoCall EXCEPT !.op = "toTypedArray", !.arg = in[2],
                               !.dtype = dtype, !.debug = debug],
                toTypedArray(in[1], debug, in[2], dtype))

CreateScalarValue ==
    /\ pc = "idle"
    /\ \E dtype \in DTypes, debug \in BOOLEAN :
         \E value \in (IF dtype = "string" THEN TextSample ELSE ScalarSample) :
           Finish(<<>>,
                  [NoCall EXCEPT !.op = "createScalarValue", !.arg = value,
                                 !.dtype = dtype, !.debug = debug],
                  createScalarValue(<<>>, debug, value, dtype))

EncodeString ==
    /\ pc = "idle"
    /\ \E s \in TextSample, encoding \in Encodings :
         Finish(<<>>,
                [NoCall EXCEPT !.op = "encodeString", !.arg = s,
                               !.encoding = encoding],
                encodeString(<<>>, s, encoding))

\* the caller drops the result and the buffers of the call
Return ==
    /\ pc = "done"
    /\ heap0' = <<>>
    /\ heap' = <<>>
    /\ pc' = "idle"
    /\ call' = NoCall
    /\ ret' = NoRet
    /\ log' = <<>>

Next == Flatten \/ ToTypedArray \/ CreateScalarValue \/ EncodeString \/ Return

Spec == Init /\ [][Next]_vars

(* ------------------------- expected results --------------------------- *)

Done(op) == pc = "done" /\ call.op = op

RECURSIVE ConcatAll(_)
ConcatAll(ss) == IF ss = <<>> THEN <<>> ELSE Head(ss) \o ConcatAll(Tail(ss))

IsScalarLeaf(x) ==
    x.t \in {"number", "NaN", "1e40", "Infinity", "boolean", "string", "promise",
             "null", "undefined"}

\* a tree of true arrays and scalar leaves only
RECURSIVE PureArrayTree(_)
PureArrayTree(x) ==
    IF x.t = "array" THEN \A i \in 1..Len(x.items) : PureArrayTree(x.items[i])
    ELSE IsScalarLeaf(x)

\* the leaves of such a tree, depth first and left to right
RECURSIVE LeavesOf(_)
LeavesOf(x) ==
    IF x.t = "array" THEN ConcatAll([i \in 1..Len(x.items) |-> LeavesOf(x.items[i])])
    ELSE <<x>>

RECURSIVE LeafCount(_)
LeafCount(x) ==
    IF x.t = "array"
    THEN (IF x.items = <<>> THEN 0
          ELSE LeafCount(Head(x.items)) + LeafCount(Arr(Tail(x.items))))
    ELSE 1

\* a key that is a non-negative integer in canonical decimal form
IsCanonicalIndex(k) ==
    /\ Len(k) >= 1
    /\ \A i \in 1..Len(k) : k[i] \in Digit
    /\ IndexKey(KeyNumber(k)) = k

\* the largest canonical index among the own keys, -1 when there is none
LargestIndex(props) ==
    LET ns == {KeyNumber(k) : k \in {j \in DOMAIN props : IsCanonicalIndex(j)}}
    IN  IF ns = {} THEN -1 ELSE CHOOSE m \in ns : \A n \in ns : n <= m

\* the leaves of any nested value: arrays in order, array-like objects dense
\* from 0 to their largest index, typed arrays as one leaf or element by
\* element
RECURSIVE ExpectedLeaves(_, _, _)
ExpectedLeaves(h, x, skip) ==
    CASE x.t = "array" ->
           ConcatAll([i \in 1..Len(x.items) |-> ExpectedLeaves(h, x.items[i], skip)])
      [] x.t = "typed" -> IF skip THEN <<x>> ELSE h[x.ref].data
      [] x.t = "object" ->
           ConcatAll([n \in 1..(LargestIndex(x.props) + 1) |->
                        IF IndexKey(n - 1) \in DOMAIN x.props
                        THEN ExpectedLeaves(h, x.props[IndexKey(n - 1)], skip)
                        ELSE <<Undefined>>])
      [] OTHER -> <<x>>

RECURSIVE HasObject(_)
HasObject(x) ==
    CASE x.t = "object" -> TRUE
      [] x.t = "array" -> \E i \in 1..Len(x.items) : HasObject(x.items[i])
      [] OTHER -> FALSE

(* ------------------------------ claims -------------------------------- *)

\* C1: flatten of a tree built only from true arrays and scalar leaves
\* returns exactly the leaves of the tree, depth first and left to right,
\* as many as the tree has leaves.
C1_FlattenArrays ==
    (Done("flatten") /\ PureArrayTree(call.arg)) =>
        /\ ret.value = LeavesOf(call.arg)
        /\ Len(ret.value) = LeafCount(call.arg)

C1_Witness ==
    /\ Done("flatten")
    /\ call.arg = Arr(<<Arr(<<Str(<<97>>)>>), Whole(1)>>)
    /\ ret.value = <<Str(<<97>>), Whole(1)>>

\* C2: for an array-like object flatten considers only the keys that are
\* non-negative integers in canonical decimal form, visits every index from
\* 0 to the largest of them in increasing order, and an absent index gives
\* one undefined leaf.
C2_ObjectDense ==
    (Done("flatten") /\ call.arg.t = "object") =>
        LET props == call.arg.props
            part(i) == IF IndexKey(i) \in DOMAIN props
                       THEN ExpectedLeaves(heap0, props[IndexKey(i)], call.skipTypedArray)
                       ELSE <<Undefined>>
        IN  ret.value = ConcatAll([n \in 1..(LargestIndex(props) + 1) |-> part(n - 1)])

C2_Witness ==
    /\ Done("flatten")
    /\ call.arg = Obj((<<"0">> :> Str(<<97>>)) @@ (<<"2">> :> Str(<<99>>))
                        @@ (<<"0", "1">> :> Str(<<99>>)))
    /\ ret.value = <<Str(<<97>>), Undefined, Str(<<99>>)>>

\* C3: a typed array whose kind matches the target type (Float32Array with
\* float32, Int32Array with int32, Uint8Array with bool) is returned as the
\* same reference, its contents unchanged, and no buffer is allocated.
C3_FastPath ==
    (/\ Done("toTypedArray")
     /\ call.arg.t = "typed"
     /\ <<heap0[call.arg.ref].kind, call.dtype>> \in
          {<<"Float32Array", "float32">>, <<"Int32Array", "int32">>,
           <<"Uint8Array", "bool">>}) =>
        /\ ret.ok
        /\ ret.ref = call.arg.ref
        /\ heap = heap0
        /\ \A i \in 1..Len(log) : log[i] \in {"checkConversionForErrors"}

C3_Witness ==
    /\ Done("toTypedArray")
    /\ call.arg = Typed(1)
    /\ call.dtype = "float32"
    /\ heap0[1] = Buffer("Float32Array", <<Num(2), NaN>>)
    /\ ret.ok /\ ret.ref = 1

News == {"new Float32Array", "new Int32Array", "new Uint8Array"}

\* C4: with the debug flag on, toTypedArray runs the validator on the
\* flattened values before any conversion, and a finding aborts the call
\* with no buffer allocated or returned; with the flag off the validator is
\* not run and the same input is converted.
C4_DebugValidation ==
    (Done("toTypedArray") /\ call.dtype # "string") =>
        LET leaves == ExpectedLeaves(heap0, call.arg, FALSE)
            finding == \E i \in 1..Len(leaves) : ~Representable(leaves[i], call.dtype)
        IN  /\ call.debug =>
                 /\ \E i \in 1..Len(log) :
                      /\ log[i] = "checkConversionForErrors"
                      /\ \A j \in 1..Len(log) : log[j] \in News => i < j
                 /\ finding =>
                      /\ ~ret.ok
                      /\ ret.err = "checkConversionForErrors"
                      /\ ret.ref = 0
                      /\ heap = heap0
                      /\ \A j \in 1..Len(log) : log[j] \notin News
            /\ ~call.debug =>
                 /\ \A i \in 1..Len(log) : log[i] # "checkConversionForErrors"
                 /\ call.dtype # "int64" => ret.ok

C4_Witness ==
    /\ Done("toTypedArray")
    /\ call.arg = Arr(<<Huge>>)
    /\ call.dtype = "int32"
    /\ call.debug
    /\ ~ret.ok
    /\ heap = heap0

RoundsToZero(x) ==
    LET n == ToNumber(x)
    IN  n.t = "number" /\ -2 <= n.q /\ n.q < 2

C8_ScalarAsVector ==
    Done("createScalarValue") =>
        IF call.dtype = "string"
        THEN /\ ret.ok
             /\ heap[ret.ref] = Buffer("Uint8Array", platformEncode(call.arg, "utf-8"))
             /\ log = <<"platform.encode", "utf-8">>
        ELSE LET r == toTypedArray(heap0, call.debug, Arr(<<call.arg>>), call.dtype)
             IN  /\ ret.ok = r.ok
                 /\ ret.err = r.err
                 /\ log = r.steps
                 /\ r.ok => /\ heap[ret.ref] = r.heap[r.ref]
                            /\ Len(heap[ret.ref].data) = 1

C8_Witness ==
    /\ Done("createScalarValue")
    /\ call.dtype = "string"
    /\ call.arg = Str(<<233, 55>>)
    /\ ret.ok
    /\ heap[ret.ref].data = <<Whole(195), Whole(169), Whole(55)>>

\* C9: a typed array met by flatten, nested or at the top, is appended as
\* one leaf when skipTypedArray is true and element by element otherwise;
\* the flag changes nothing for an input without typed arrays.
C9_TypedArrayLeaf ==
    Done("flatten") =>
        /\ ret.value = ExpectedLeaves(heap0, call.arg, call.skipTypedArray)
        /\ call.arg.t = "typed" =>
             ret.value = IF call.skipTypedArray THEN <<call.arg>>
                         ELSE heap0[call.arg.ref].data
        /\ ~HasTyped(call.arg) =>
             flatten(heap0, call.arg, <<>>, ~call.skipTypedArray) = ret.value

C9_Witness ==
    /\ Done("flatten")
    /\ call.arg = Arr(<<Whole(1), Arr(<<Typed(1)>>)>>)
    /\ call.skipTypedArray
    /\ Len(heap0[1].data) = 2
    /\ ret.value = <<Whole(1), Typed(1)>>

\* C10 as stated: every buffer a successful toTypedArray call with target
\* bool returns holds only the bytes 0 and 1.
C10_OnlyZeroOne ==
    (Done("toTypedArray") /\ call.dtype = "bool" /\ ret.ok) =>
        \A i \in 1..Len(heap[ret.ref].data) :
            heap[ret.ref].data[i] \in {Whole(0), Whole(1)}

\* C10 amended: a buffer newly allocated by a successful toTypedArray call
\* with target bool holds only the bytes 0 and 1; a Uint8Array input is
\* returned as it is and keeps the bytes it held.
C10_NewBuffersOnlyZeroOne ==
    (Done("toTypedArray") /\ call.dtype = "bool" /\ ret.ok) =>
        IF ret.ref \in DOMAIN heap0
        THEN /\ call.arg = Typed(ret.ref)
             /\ heap0[ret.ref].kind = "Uint8Array"
             /\ heap[ret.ref] = heap0[ret.ref]
        ELSE \A i \in 1..Len(heap[ret.ref].data) :
                 heap[ret.ref].data[i] \in {Whole(0), Whole(1)}

C10_Witness ==
    /\ Done("toTypedArray")
    /\ call.dtype = "bool"
    /\ call.arg = Typed(1)
    /\ heap0[1] = Buffer("Uint8Array", <<Whole(2), Whole(1)>>)
    /\ ret.ok
    /\ ret.ref = 1
    /\ heap[1].data = <<Whole(2), Whole(1)>>

====
